---- MODULE Spec2Model ----
(***************************************************************************)
(* Backtest engine of hamrlab-backtest: moving-average crossover signal,   *)
(* position tracking, equity simulation and trade counting, as written in  *)
(* the Streamlit pages Home.py (repeated verbatim in pages/1_QQQLRS.py and *)
(* pages/2_0050LRS.py), pages/2_LRS_leveraged.py and                       *)
(* pages/1_200SMA_basic.py.                                                *)
(*                                                                         *)
(* A data frame is a family of equally long sequences (one per column);    *)
(* row i of the frame is index i of every column.  Prices are positive     *)
(* integers; moving averages and equity values are exact fractions         *)
(* <<numerator, denominator>> with a positive denominator, and <<0, 0>>    *)
(* stands for NaN.                                                         *)
(***************************************************************************)
EXTENDS Integers, Sequences, FiniteSets, TLC

\* ---------------------------------------------------------------- bounds
MaxLen == 5          \* longest aligned price history fed to a run
MaxPrice == 2        \* signal-instrument prices are drawn from 1..MaxPrice
MaxLevPrice == 2     \* traded-instrument prices are drawn from 1..MaxLevPrice
WINDOW == 2          \* rolling window length (200 in the pages)

VARIABLES
    pc,             \* position of the page script
    page,           \* which page script is running
    position_mode,  \* radio "策略初始狀態" (Home only)
    ma_type,        \* selectbox "均線種類" (Basic only)
    start,          \* requested start date (ordinal of a trading date)
    end,            \* requested end date
    base_index,     \* dates stored for the signal instrument
    base_close,     \* stored closing price of the signal instrument per date
    lev_index,      \* dates stored for the traded instrument
    Joined_index,   \* df.index after the join, before the warm-up is dropped
    Joined_base,    \* df["Price_base"] after the join, before the warm-up is dropped
    Index,          \* df.index: the dates of the frame's rows
    Price_base,     \* df["Price_base"] (df["Price"] on Basic)
    Price_lev,      \* df["Price_lev"]
    MA,             \* df["MA_200"] (df["MA"] on Basic)
    Signal,         \* df["Signal"]
    Position,       \* df["Position"]
    Equity_LRS,     \* df["Equity_LRS"]
    Equity_BH_Base, \* df["Equity_BH_Base"] (df["Equity_BuyHold"] on Basic)
    Equity_BH_Lev,  \* df["Equity_BH_Lev"]
    Return_base,    \* df["Return_base"] (df["Return"] on Basic)
    Return_lev,     \* df["Return_lev"]
    Return_LRS,     \* df["Return_LRS"] (df["Strategy_Return"] on Basic)
    buy_count,      \* number of reported buy markers
    sell_count,     \* number of reported sell markers
    trade_count,    \* reported number of trades
    m_lrs,          \* metrics of the strategy curve
    m_lev,          \* metrics of the buy-and-hold traded curve
    m_base,         \* metrics of the buy-and-hold signal curve
    csv_file,       \* data/{symbol}.csv as last read by a loader
    loader,         \* the loader last called
    load_out,       \* what that call returned or raised
    script,         \* the page script the session has open
    password_correct, \* st.session_state["password_correct"]
    password,       \* st.session_state["password"] (key of the text input)
    gate,           \* what the last check_password call returned and rendered
    submitted,      \* the text last submitted in this script run
    prev,           \* what the session's previous finished run displayed
    df,             \* the frame handed to detect_and_repair_splits
    df_fixed,       \* the frame it returned
    repairs,        \* the repairs it made, in order
    csv_data,       \* data/{symbol}.csv: whether it exists, and its rows
    existing,       \* the file as update_symbol read it
    fresh,          \* what download_data returned
    new_data,       \* the merged frame, before the split repair
    update_mode,    \* "full" or "append", and whether the run saved
    runs,           \* how many times the updater has run
    universe,       \* the price series rank_momentum was called on
    tolerance,      \* its staleness tolerance
    ranking         \* the list it returned
inputVars == <<page, position_mode, ma_type, start, end, base_index,
              base_close, lev_index>>
frameVars == <<Joined_index, Joined_base, Index, Price_base, Price_lev, MA>>
curveVars == <<Equity_LRS, Equity_BH_Base, Equity_BH_Lev, Return_base,
              Return_lev, Return_LRS>>
countVars == <<buy_count, sell_count, trade_count>>
metricVars == <<m_lrs, m_lev, m_base>>
runVars == <<pc, inputVars, frameVars, Signal, Position, curveVars, countVars,
             metricVars>>
loaderVars == <<csv_file, loader, load_out>>
authVars == <<script, password_correct, password, gate, submitted>>
repairVars == <<df, df_fixed, repairs>>
updateVars == <<csv_data, existing, fresh, new_data, update_mode, runs>>
rankVars == <<universe, tolerance, ranking>>
dataVars == <<repairVars, updateVars, rankVars>>
laterVars == <<prev, dataVars>>
sideVars == <<loaderVars, authVars, laterVars>>
vars == <<runVars, loaderVars, authVars, laterVars>>

\* ------------------------------------------------------------- fractions
NaN == <<0, 0>>
IsNaN(x) == x[2] = 0
One == <<1, 1>>
FracEq(a, b) == a[1] * b[2] = b[1] * a[2]
FracPos(a) == a[1] > 0 /\ a[2] > 0
FracMul(a, b) == <<a[1] * b[1], a[2] * b[2]>>
FracDiv(a, b) == <<a[1] * b[2], a[2] * b[1]>>
RECURSIVE GCD(_, _)
GCD(a, b) == IF b = 0 THEN a ELSE GCD(b, a % b)
Abs(x) == IF x < 0 THEN -x ELSE x
\* the same value in lowest terms
Reduce(f) ==
    LET g == GCD(Abs(f[1]), Abs(f[2]))
    IN  IF g = 0 THEN f ELSE <<f[1] \div g, f[2] \div g>>
FracSub(a, b) == Reduce(<<a[1] * b[2] - b[1] * a[2], a[2] * b[2]>>)
FracLT(a, b) == a[1] * b[2] < b[1] * a[2]
\* comparisons of an integer price p with a fraction m
PriceGT(p, m) == p * m[2] > m[1]
PriceLT(p, m) == p * m[2] < m[1]
PriceLE(p, m) == p * m[2] <= m[1]
PriceGE(p, m) == p * m[2] >= m[1]
PriceEQ(p, m) == p * m[2] = m[1]

\* ------------------------------------------------------- input universes
PositionModes == {"StartFlat", "StartInvested"}
MaTypes == {"SMA", "EMA"}
BaseSeries == UNION {[1..n -> 1..MaxPrice] : n \in 0..MaxLen}
LevSeries(n) == [1..n -> 1..MaxLevPrice]
StartDates == 1..(MaxLen + 1)

\* ------------------------------------------------------- moving averages
RECURSIVE SumRange(_, _, _)
SumRange(s, a, b) == IF a > b THEN 0 ELSE s[a] + SumRange(s, a + 1, b)

\* variant of the rolling mean: averages whatever observations exist
RollingMeanTruncated(s, w) ==
    [t \in 1..Len(s) |->
        IF t < w THEN <<SumRange(s, 1, t), t>>
        ELSE <<SumRange(s, t - w + 1, t), w>>]
\* Series.rolling(w).mean(): NaN until w observations exist
RollingMean(s, w) ==
    [t \in 1..Len(s) |-> IF t < w THEN NaN ELSE <<SumRange(s, t - w + 1, t), w>>]

\* Series.ewm(span=w, adjust=False).mean(): y1 = x1,
\* yt = a*xt + (1-a)*y(t-1) with a = 2/(w+1)
RECURSIVE EwmAt(_, _, _)
EwmAt(s, w, t) ==
    IF t = 1 THEN <<s[1], 1>>
    ELSE LET y == EwmAt(s, w, t - 1)
         IN  <<2 * s[t] * y[2] + (w - 1) * y[1], (w + 1) * y[2]>>
EwmMean(s, w) == [t \in 1..Len(s) |-> EwmAt(s, w, t)]

\* rows lo..Len(col) of a column
Rows(col, lo) == SubSeq(col, lo, Len(col))
\* first row whose MA is defined and whose date is not before st
\* (Len+1 when there is none)
FirstRow(idx, ma, st) ==
    LET ok == {i \in 1..Len(idx) : ~IsNaN(ma[i]) /\ idx[i] >= st}
    IN  IF ok = {} THEN Len(idx) + 1 ELSE CHOOSE i \in ok : \A j \in ok : i <= j

\* ---------------------------------------------------------------- signal
\* variant of the rule: only today's side is looked at
CrossTodayOnly(p, m, p0, m0) ==
    IF PriceGT(p, m) THEN 1
    ELSE IF PriceLT(p, m) THEN -1
    ELSE 0

\* variant of the rule: the previous day must be strictly on the other side
CrossStrictPrev(p, m, p0, m0) ==
    IF PriceGT(p, m) /\ PriceLT(p0, m0) THEN 1
    ELSE IF PriceLT(p, m) /\ PriceGT(p0, m0) THEN -1
    ELSE 0

\* variant of the rule: touching the average today already counts
CrossNonStrict(p, m, p0, m0) ==
    IF PriceGE(p, m) /\ PriceLE(p0, m0) THEN 1
    ELSE IF PriceLE(p, m) /\ PriceGE(p0, m0) THEN -1
    ELSE 0

\* the crossover rule of the signal loops
Cross(p, m, p0, m0) ==
    IF PriceGT(p, m) /\ PriceLE(p0, m0) THEN 1
    ELSE IF PriceLT(p, m) /\ PriceGE(p0, m0) THEN -1
    ELSE 0

\* variant of the Home loop: row 0 forced to a buy as on the other pages
SignalHomeForcedBuy(price, ma) ==
    [i \in 1..Len(price) |->
        IF i = 1 THEN 1 ELSE Cross(price[i], ma[i], price[i-1], ma[i-1])]

\* Home: row 0 keeps the column default 0
SignalHome(price, ma) ==
    [i \in 1..Len(price) |->
        IF i = 1 THEN 0 ELSE Cross(price[i], ma[i], price[i-1], ma[i-1])]

\* Leveraged and Basic: row 0 is forced to a buy before the loop
SignalForced(price, ma) ==
    [i \in 1..Len(price) |->
        IF i = 1 THEN 1 ELSE Cross(price[i], ma[i], price[i-1], ma[i-1])]

\* -------------------------------------------------------------- position
\* "空手" in position_mode
HasKongShou(mode) == mode = "StartFlat"
\* variants of the initial position: the two options swapped / always invested
InitialPosSwapped(mode) == IF HasKongShou(mode) THEN 1 ELSE 0
InitialPosAllIn(mode) == 1

\* variant: the position left by the session's previous run is carried over
InitialPosCarried(mode) ==
    IF prev.pc # "done" THEN (IF HasKongShou(mode) THEN 0 ELSE 1)
    ELSE prev.Position[Len(prev.Position)]

\* Home: current_pos before the comprehension
InitialPos(mode) == IF HasKongShou(mode) THEN 0 ELSE 1

\* variant of the step: a day without signal falls back to flat
NextPosFlatOnNone(sig, current) == IF sig = 1 THEN 1 ELSE 0

\* one step of the position state machine
NextPos(sig, current) == IF sig = 1 THEN 1 ELSE IF sig = -1 THEN 0 ELSE current

RECURSIVE PositionLoop(_, _, _)
PositionLoop(sig, current, i) ==
    IF i > Len(sig) THEN <<>>
    ELSE LET c == NextPos(sig[i], current)
         IN  <<c>> \o PositionLoop(sig, c, i + 1)

\* ---------------------------------------------------------------- equity
\* Series.pct_change().fillna(0)
PctChange(s) ==
    [i \in 1..Len(s) |-> IF i = 1 THEN <<0, 1>> ELSE <<s[i] - s[i-1], s[i-1]>>]
OnePlus(r) == <<r[1] + r[2], r[2]>>

\* variant of the Home test: held today is enough
GrowsHomeHeldToday(pos, i) == pos[i] = 1

\* Home: a day compounds only if held on both i and i-1
GrowsHome(pos, i) == pos[i] = 1 /\ pos[i-1] = 1
\* Leveraged: a day compounds if held on i
GrowsLeveraged(pos, i) == pos[i] = 1
\* Basic: a day compounds if held on i-1
GrowsBasic(pos, i) == pos[i-1] = 1

\* variant of the Home loop: compounds with the return r-1 instead of r
RECURSIVE EquityHomeReturn(_, _, _, _)
EquityHomeReturn(pos, lev, eq, i) ==
    IF i > Len(pos) THEN eq
    ELSE EquityHomeReturn(pos, lev,
            Append(eq, IF GrowsHome(pos, i)
                       THEN FracMul(eq[i-1], <<lev[i] - lev[i-1], lev[i-1]>>)
                       ELSE eq[i-1]),
            i + 1)

RECURSIVE EquityHome(_, _, _, _)
EquityHome(pos, lev, eq, i) ==
    IF i > Len(pos) THEN eq
    ELSE EquityHome(pos, lev,
            Append(eq, IF GrowsHome(pos, i)
                       THEN FracMul(eq[i-1], <<lev[i], lev[i-1]>>)
                       ELSE eq[i-1]),
            i + 1)

RECURSIVE EquityLeveraged(_, _, _, _)
EquityLeveraged(pos, lev, eq, i) ==
    IF i > Len(pos) THEN eq
    ELSE EquityLeveraged(pos, lev,
            Append(eq, IF GrowsLeveraged(pos, i)
                       THEN FracMul(eq[i-1], <<lev[i], lev[i-1]>>)
                       ELSE eq[i-1]),
            i + 1)

RECURSIVE EquityBasic(_, _, _, _)
EquityBasic(pos, price, eq, i) ==
    IF i > Len(pos) THEN eq
    ELSE EquityBasic(pos, price,
            Append(eq, IF GrowsBasic(pos, i)
                       THEN FracMul(eq[i-1], OnePlus(PctChange(price)[i]))
                       ELSE eq[i-1]),
            i + 1)

\* Basic: df["Equity_LRS"] /= df["Equity_LRS"].iloc[0]
\* variant of the trim: the curve is cut but not rescaled
RenormaliseNone(eq) == eq
Renormalise(eq) == [i \in 1..Len(eq) |-> Reduce(FracDiv(eq[i], eq[1]))]

\* ----------------------------------------------------------- trade count
CountOf(sig, v, from) == Cardinality({i \in from..Len(sig) : sig[i] = v})
\* Home: int((df["Signal"] != 0).sum())
TradeCountHome(sig) == Cardinality({i \in 1..Len(sig) : sig[i] # 0})
\* Home, Leveraged: buys = df[df["Signal"] == 1], sells = df[df["Signal"] == -1]
BuysAll(sig) == CountOf(sig, 1, 1)
SellsAll(sig) == CountOf(sig, -1, 1)
\* Basic: buy_points / sell_points over range(1, len(df))
BuyPointsBasic(sig) == CountOf(sig, 1, 2)
SellPointsBasic(sig) == CountOf(sig, -1, 2)

\* ------------------------------------------------------------- run inputs
\* 365 calendar days of pre-history, scaled to the model's window
Buffer == WINDOW

\* the dates of a date set in ascending order (a sorted DatetimeIndex)
RECURSIVE SortedSeq(_)
SortedSeq(S) ==
    IF S = {} THEN <<>>
    ELSE LET x == CHOOSE x \in S : \A y \in S : x <= y
         IN  <<x>> \o SortedSeq(S \ {x})

\* variant of the slice: the end date is not applied
SliceOpen(S, a, b) == {d \in S : a <= d}
\* index.loc[a:b]: both ends inclusive
Slice(S, a, b) == {d \in S : a <= d /\ d <= b}
\* yf.download(start=a, end=b): the end date is excluded
Download(S, a, b) == {d \in S : a <= d /\ d < b}

\* variant of the join: every date of the signal series is kept
LeftJoin(B, L) == B
\* df.join(..., how="inner"): the dates present in both series
InnerJoin(B, L) == B \cap L

\* one backtest request: the stored series and the chosen range
RunInput(bprice, ldates, st, en) ==
    [bdates |-> DOMAIN bprice, bprice |-> bprice, ldates |-> ldates,
     st |-> st, en |-> en]

\* the date pickers: both dates lie between the later first date and the
\* earlier last date of the two series; with a series missing the range is
\* 2012-01-01 .. today
Earliest(S) == CHOOSE x \in S : \A y \in S : x <= y
Latest(S) == CHOOSE x \in S : \A y \in S : x >= y
s_min(B, L) == IF Earliest(B) > Earliest(L) THEN Earliest(B) ELSE Earliest(L)
s_max(B, L) == IF Latest(B) < Latest(L) THEN Latest(B) ELSE Latest(L)
Pickable(B, L, cal) == IF B = {} \/ L = {} THEN cal ELSE s_min(B, L)..s_max(B, L)

\* both instruments stored on the same consecutive dates, the end date left
\* at its default, the last stored date
GaplessRuns ==
    {r \in {RunInput(b, DOMAIN b, s, IF b = <<>> THEN MaxLen + 1 ELSE Len(b)) :
                b \in BaseSeries, s \in StartDates} :
        r.st \in Pickable(r.bdates, r.ldates, StartDates)}

\* calendar dates of which the instruments trade on some
MaxCal == 4
Calendar == 1..MaxCal
\* the signal instrument misses at most two dates, the traded one any
BaseDateSets == {B \in SUBSET Calendar : Cardinality(B) >= MaxCal - 2}
LevDateSets == SUBSET Calendar
AlignRuns ==
    {r \in UNION {[bdates : {B}, bprice : [B -> 1..MaxPrice], ldates : LevDateSets,
                   st : Calendar, en : Calendar] : B \in BaseDateSets} :
        /\ r.st \in Pickable(r.bdates, r.ldates, Calendar)
        /\ r.en \in Pickable(r.bdates, r.ldates, Calendar)}
\* Basic reads one instrument
AlignRunsBasic ==
    UNION {[bdates : {B}, bprice : [B -> 1..MaxPrice], ldates : {B},
            st : Earliest(B)..Latest(B), en : Earliest(B)..Latest(B)] :
              B \in BaseDateSets}
\* traded prices of the gapped runs: level series
LevFlat(n) == {[i \in 1..n |-> a] : a \in 1..MaxLevPrice}
\* the traded prices a run may find on its n kept rows
Traded(level, n) == IF level THEN LevFlat(n) ELSE LevSeries(n)

\* ------------------------------------------------------- buy-and-hold
RECURSIVE CumProd(_, _)
\* (1 + returns).cumprod() up to row t
CumProd(rs, t) ==
    IF t = 0 THEN One ELSE FracMul(CumProd(rs, t - 1), OnePlus(rs[t]))
\* Equity_BH_* = (1 + df["Return_*"]).cumprod()
BuyHold(ret) == [t \in 1..Len(ret) |-> CumProd(ret, t)]

\* ------------------------------------------------------- return series

\* Home, Leveraged: df["Equity_LRS"].pct_change().fillna(0)
PctChangeFrac(eq) ==
    [i \in 1..Len(eq) |->
        IF i = 1 THEN <<0, 1>>
        ELSE FracSub(FracDiv(eq[i], eq[i-1]), One)]

\* Basic: df["Strategy_Return"] = df["Return"] * df["Position"]
StrategyReturn(ret, pos) ==
    [i \in 1..Len(ret) |-> <<ret[i][1] * pos[i], ret[i][2]>>]

\* ------------------------------------------------------------- metrics
FracAdd(a, b) == Reduce(<<a[1] * b[2] + b[1] * a[2], a[2] * b[2]>>)
RECURSIVE SumFrac(_, _)
\* sum of the first n values
SumFrac(xs, n) == IF n = 0 THEN <<0, 1>> ELSE FracAdd(SumFrac(xs, n - 1), xs[n])
Square(xs) == [i \in 1..Len(xs) |-> FracMul(xs[i], xs[i])]
\* Series.std(): sample standard deviation (ddof = 1), here its square;
\* NaN for fewer than two observations
Variance(xs) ==
    LET n == Len(xs)
        sum == SumFrac(xs, n)
    IN  IF n < 2 THEN NaN
        ELSE FracDiv(FracSub(SumFrac(Square(xs), n),
                             FracDiv(FracMul(sum, sum), <<n, 1>>)),
                     <<n - 1, 1>>)
\* daily[daily < 0]
Negatives(xs) == SelectSeq(xs, LAMBDA x : x[1] < 0)

FracMax(a, b) == IF FracLT(a, b) THEN b ELSE a
FracMin(a, b) == IF FracLT(b, a) THEN b ELSE a
RECURSIVE CumMaxFrom(_, _, _)
\* eq.cummax(): the running maxima of rows t.. given the maximum m so far
CumMaxFrom(eq, t, m) ==
    IF t > Len(eq) THEN <<>>
    ELSE <<FracMax(m, eq[t])>> \o CumMaxFrom(eq, t + 1, FracMax(m, eq[t]))
CumMax(eq) == CumMaxFrom(eq, 1, eq[1])
RECURSIVE MinFrac(_, _)
\* Series.min() over the first n rows
MinFrac(xs, n) ==
    IF n = 1 THEN xs[1] ELSE FracMin(MinFrac(xs, n - 1), xs[n])
\* variant of the drawdown: measured from the highest value of the whole
\* curve instead of the running maximum
MddFromPeak(eq) ==
    LET peak == CumMax(eq)[Len(eq)]
        ratio == [t \in 1..Len(eq) |-> FracDiv(eq[t], peak)]
    IN  FracSub(One, MinFrac(ratio, Len(eq)))
\* mdd = 1 - (eq / eq.cummax()).min()
Mdd(eq) ==
    LET cummax == CumMax(eq)
        ratio == [t \in 1..Len(eq) |-> FracDiv(eq[t], cummax[t])]
    IN  FracSub(One, MinFrac(ratio, Len(eq)))

\* variant of calc_metrics: the ratios are formed without testing the
\* deviation
calc_metricsUnguarded(series) ==
    IF Len(series) <= 1
    THEN [vol |-> "nan", sharpe |-> "nan", sortino |-> "nan"]
    ELSE [vol |-> "num", sharpe |-> "num", sortino |-> "num"]
\* calc_metrics: values that are irrational in general are kept as "num"
\* (a number) or "nan"
calc_metrics(series) ==
    IF Len(series) <= 1
    THEN [vol |-> "nan", sharpe |-> "nan", sortino |-> "nan"]
    ELSE [vol |-> "num",
          sharpe |-> IF FracPos(Variance(series)) THEN "num" ELSE "nan",
          sortino |-> IF FracPos(Variance(Negatives(series)))
                      THEN "num" ELSE "nan"]

\* calc_core (Home), calc_metrics(eq, ret) (Leveraged), the inline metric
\* block (Basic); calmar exists on Home only
calc_core(pg, idx, eq, rets) ==
    LET final_eq == eq[Len(eq)]
        years_pos == idx[Len(idx)] > idx[1]
        cagr == IF years_pos THEN "num" ELSE "nan"
        mdd == Mdd(eq)
        m == calc_metrics(rets)
    IN  [final_eq |-> final_eq,
         final_ret |-> FracSub(final_eq, One),
         cagr |-> cagr,
         mdd |-> mdd,
         vol |-> m.vol,
         sharpe |-> m.sharpe,
         sortino |-> m.sortino,
         calmar |-> IF pg # "Home" THEN "absent"
                    ELSE IF FracPos(mdd) THEN cagr ELSE "nan"]

Init ==
    /\ pc = "idle"
    /\ page = "none"
    /\ position_mode = "none"
    /\ ma_type = "none"
    /\ start = 0
    /\ end = 0
    /\ base_index = {}
    /\ base_close = <<>>
    /\ lev_index = {}
    /\ Joined_index = <<>>
    /\ Joined_base = <<>>
    /\ Index = <<>>
    /\ Price_base = <<>>
    /\ Price_lev = <<>>
    /\ MA = <<>>
    /\ Signal = <<>>
    /\ Position = <<>>
    /\ Equity_LRS = <<>>
    /\ Equity_BH_Base = <<>>
    /\ Equity_BH_Lev = <<>>
    /\ Return_base = <<>>
    /\ Return_lev = <<>>
    /\ Return_LRS = <<>>
    /\ buy_count = 0
    /\ sell_count = 0
    /\ trade_count = 0
    /\ m_lrs = "none"
    /\ m_lev = "none"
    /\ m_base = "none"
    /\ csv_file = [exists |-> FALSE, rows |-> <<>>]
    /\ loader = "none"
    /\ load_out = [error |-> "none", index |-> <<>>]
    /\ script = "none"
    /\ password_correct = "unset"
    /\ password = "unset"
    /\ gate = [ret |-> FALSE, form |-> FALSE, error |-> FALSE]
    /\ submitted = "none"
    /\ prev = [pc |-> "none"]
    /\ df = <<>>
    /\ df_fixed = <<>>
    /\ repairs = <<>>
    /\ csv_data = [exists |-> FALSE, rows |-> <<>>]
    /\ existing = [exists |-> FALSE, rows |-> <<>>]
    /\ fresh = <<>>
    /\ new_data = <<>>
    /\ update_mode = [fetch |-> "none", saved |-> FALSE]
    /\ runs = 0
    /\ universe = <<>>
    /\ tolerance = 0
    /\ ranking = <<>>

noResults == UNCHANGED <<Signal, Position, curveVars, countVars, metricVars>>

\* st.error(...) + st.stop() before any frame is kept
StopRun ==
    /\ pc' = "stopped"
    /\ UNCHANGED frameVars

\* the frame after join / dropna / trim: rows lo.. of the joined frame
KeepFrame(jidx, jbase, ma, lo) ==
    /\ Joined_index' = jidx
    /\ Joined_base' = jbase
    /\ Index' = Rows(jidx, lo)
    /\ Price_base' = Rows(jbase, lo)
    /\ MA' = Rows(ma, lo)

\* Home: button pressed; load, slice, join, rolling mean, dropna, trim.
\* Traded prices are drawn for the rows that survive the trim only: the
\* rows before them are dropped without their traded price being read.
StartHomeOn(Runs, level) ==
    /\ pc = "idle"
    /\ UNCHANGED sideVars
    /\ \E mode \in PositionModes, r \in Runs :
         LET start_early == r.st - Buffer
             bi == Slice(r.bdates, start_early, r.en)
             li == Slice(r.ldates, start_early, r.en)
             jidx == SortedSeq(InnerJoin(bi, li))
             jbase == [i \in 1..Len(jidx) |-> r.bprice[jidx[i]]]
             ma == RollingMean(jbase, WINDOW)
             lo == FirstRow(jidx, ma, r.st)
         IN  /\ page' = "Home"
             /\ position_mode' = mode
             /\ ma_type' = "none"
             /\ start' = r.st
             /\ end' = r.en
             /\ base_index' = r.bdates
             /\ base_close' = r.bprice
             /\ lev_index' = r.ldates
             /\ IF r.bdates = {} \/ r.ldates = {}
                THEN StopRun
                ELSE IF lo > Len(jidx)
                THEN /\ pc' = "stopped"
                     /\ Joined_index' = jidx
                     /\ Joined_base' = jbase
                     /\ UNCHANGED <<Index, Price_base, Price_lev, MA>>
                ELSE /\ pc' = "signal"
                     /\ KeepFrame(jidx, jbase, ma, lo)
                     /\ Price_lev' \in Traded(level, Len(jidx) - lo + 1)
             /\ noResults

StartHome == StartHomeOn(GaplessRuns, FALSE)
\* the same handler over series with missing dates
StartHomeAlign == StartHomeOn(AlignRuns, TRUE)

\* Leveraged: button pressed; range check, download, join, rolling mean,
\* dropna, trim.  Traded prices are drawn for the kept rows only.
StartLeveragedOn(Runs, level) ==
    /\ pc = "idle"
    /\ UNCHANGED sideVars
    /\ \E r \in Runs :
         LET start_early == r.st - Buffer
             bi == Download(r.bdates, start_early, r.en)
             li == Download(r.ldates, start_early, r.en)
             jidx == SortedSeq(Slice(InnerJoin(bi, li), start_early, r.en))
             jbase == [i \in 1..Len(jidx) |-> r.bprice[jidx[i]]]
             ma == RollingMean(jbase, WINDOW)
             lo == FirstRow(jidx, ma, r.st)
         IN  /\ page' = "Leveraged"
             /\ position_mode' = "none"
             /\ ma_type' = "none"
             /\ start' = r.st
             /\ end' = r.en
             /\ base_index' = r.bdates
             /\ base_close' = r.bprice
             /\ lev_index' = r.ldates
             /\ IF r.st >= r.en \/ bi = {} \/ li = {}
                THEN StopRun
                ELSE IF lo > Len(jidx)
                THEN /\ pc' = "stopped"
                     /\ Joined_index' = jidx
                     /\ Joined_base' = jbase
                     /\ UNCHANGED <<Index, Price_base, Price_lev, MA>>
                ELSE /\ pc' = "signal"
                     /\ KeepFrame(jidx, jbase, ma, lo)
                     /\ Price_lev' \in Traded(level, Len(jidx) - lo + 1)
             /\ noResults

StartLeveraged == StartLeveragedOn(GaplessRuns, FALSE)
\* the same handler over series with missing dates
StartLeveragedAlign == StartLeveragedOn(AlignRuns, TRUE)

\* Basic: button pressed; range check, slice, length check, SMA or EMA,
\* dropna.  One instrument is both signal and traded series.
\* The frame is NOT yet trimmed to the requested start.
StartBasicOn(Runs) ==
    /\ pc = "idle"
    /\ UNCHANGED sideVars
    /\ \E mt \in MaTypes, r \in Runs :
         LET start_early == r.st - Buffer
             jidx == SortedSeq(Slice(r.bdates, start_early, r.en))
             jbase == [i \in 1..Len(jidx) |-> r.bprice[jidx[i]]]
             ma == IF mt = "SMA" THEN RollingMean(jbase, WINDOW)
                                 ELSE EwmMean(jbase, WINDOW)
             lo == FirstRow(jidx, ma, start_early)
         IN  /\ page' = "Basic"
             /\ position_mode' = "none"
             /\ ma_type' = mt
             /\ start' = r.st
             /\ end' = r.en
             /\ base_index' = r.bdates
             /\ base_close' = r.bprice
             /\ lev_index' = r.bdates
             /\ IF r.bdates = {} \/ r.st >= r.en \/ jidx = <<>>
                THEN StopRun
                ELSE IF Len(jidx) < WINDOW \/ lo > Len(jidx)
                THEN /\ pc' = "stopped"
                     /\ Joined_index' = jidx
                     /\ Joined_base' = jbase
                     /\ UNCHANGED <<Index, Price_base, Price_lev, MA>>
                ELSE /\ pc' = "signal"
                     /\ KeepFrame(jidx, jbase, ma, lo)
                     /\ Price_lev' = Rows(jbase, lo)
             /\ noResults

StartBasic == StartBasicOn(GaplessRuns)
\* the same handler over a series with missing dates
StartBasicAlign == StartBasicOn(AlignRunsBasic)

\* the signal loop of the running page
GenSignal ==
    /\ pc = "signal"
    /\ UNCHANGED sideVars
    /\ Signal' = IF page = "Home" THEN SignalHome(Price_base, MA)
                                  ELSE SignalForced(Price_base, MA)
    /\ pc' = "position"
    /\ UNCHANGED <<inputVars, frameVars, Position, curveVars, countVars,
                   metricVars>>

\* the position loop of the running page
GenPosition ==
    /\ pc = "position"
    /\ UNCHANGED sideVars
    /\ Position' = IF page = "Home"
                   THEN PositionLoop(Signal, InitialPos(position_mode), 1)
                   ELSE PositionLoop(Signal, 1, 1)
    /\ pc' = "equity"
    /\ UNCHANGED <<inputVars, frameVars, Signal, curveVars, countVars,
                   metricVars>>

\* the equity loop of the running page, the strategy return column and
\* the buy-and-hold curves
GenEquity ==
    /\ pc = "equity"
    /\ UNCHANGED sideVars
    /\ Equity_LRS' = CASE page = "Home" ->
                            EquityHome(Position, Price_lev, <<One>>, 2)
                       [] page = "Leveraged" ->
                            EquityLeveraged(Position, Price_lev, <<One>>, 2)
                       [] page = "Basic" ->
                            EquityBasic(Position, Price_base, <<One>>, 2)
    /\ Return_base' = PctChange(Price_base)
    /\ Return_lev' = IF page = "Basic" THEN <<>> ELSE PctChange(Price_lev)
    /\ Return_LRS' = IF page = "Basic"
                     THEN StrategyReturn(Return_base', Position)
                     ELSE PctChangeFrac(Equity_LRS')
    /\ Equity_BH_Base' = BuyHold(Return_base')
    /\ Equity_BH_Lev' = IF page = "Basic" THEN <<>> ELSE BuyHold(Return_lev')
    /\ pc' = IF page = "Basic" THEN "trim" ELSE "count"
    /\ UNCHANGED <<inputVars, frameVars, Signal, Position, countVars,
                   metricVars>>

\* Basic: keep the requested range and renormalise the curves; an empty
\* range makes .iloc[0] raise
TrimBasic ==
    /\ pc = "trim"
    /\ UNCHANGED sideVars
    /\ LET lo == FirstRow(Index, MA, start)
       IN  IF lo > Len(Index)
           THEN /\ pc' = "crashed"
                /\ Index' = <<>>
                /\ Price_base' = <<>>
                /\ Price_lev' = <<>>
                /\ MA' = <<>>
                /\ Signal' = <<>>
                /\ Position' = <<>>
                /\ Equity_LRS' = <<>>
                /\ Equity_BH_Base' = <<>>
                /\ Return_base' = <<>>
                /\ Return_LRS' = <<>>
           ELSE /\ pc' = "count"
                /\ Index' = Rows(Index, lo)
                /\ Price_base' = Rows(Price_base, lo)
                /\ Price_lev' = Rows(Price_lev, lo)
                /\ MA' = Rows(MA, lo)
                /\ Signal' = Rows(Signal, lo)
                /\ Position' = Rows(Position, lo)
                /\ Equity_LRS' = Renormalise(Rows(Equity_LRS, lo))
                /\ Equity_BH_Base' = Renormalise(Rows(Equity_BH_Base, lo))
                /\ Return_base' = Rows(Return_base, lo)
                /\ Return_LRS' = Rows(Return_LRS, lo)
    /\ UNCHANGED <<inputVars, Joined_index, Joined_base, Equity_BH_Lev,
                   Return_lev, countVars, metricVars>>

\* buy / sell markers and the trade count shown in the tables
CountTrades ==
    /\ pc = "count"
    /\ UNCHANGED sideVars
    /\ buy_count' = IF page = "Basic" THEN BuyPointsBasic(Signal)
                                      ELSE BuysAll(Signal)
    /\ sell_count' = IF page = "Basic" THEN SellPointsBasic(Signal)
                                       ELSE SellsAll(Signal)
    /\ trade_count' = IF page = "Home" THEN TradeCountHome(Signal) ELSE 0
    /\ pc' = "metrics"
    /\ UNCHANGED <<inputVars, frameVars, Signal, Position, curveVars,
                   metricVars>>

\* the metric block of the running page
CalcMetrics ==
    /\ pc = "metrics"
    /\ UNCHANGED sideVars
    /\ m_lrs' = calc_core(page, Index, Equity_LRS, Return_LRS)
    /\ m_base' = calc_core(page, Index, Equity_BH_Base, Return_base)
    /\ m_lev' = IF page = "Basic" THEN "none"
                ELSE calc_core(page, Index, Equity_BH_Lev, Return_lev)
    /\ pc' = "done"
    /\ UNCHANGED <<inputVars, frameVars, Signal, Position, curveVars,
                   countVars>>

\* any widget interaction reruns the script from the top with fresh locals
\* a new script run starts with no frame and no results
ResetRun ==
    /\ pc' = "idle"
    /\ page' = "none"
    /\ position_mode' = "none"
    /\ ma_type' = "none"
    /\ start' = 0
    /\ end' = 0
    /\ base_index' = {}
    /\ base_close' = <<>>
    /\ lev_index' = {}
    /\ Joined_index' = <<>>
    /\ Joined_base' = <<>>
    /\ Index' = <<>>
    /\ Price_base' = <<>>
    /\ Price_lev' = <<>>
    /\ MA' = <<>>
    /\ Signal' = <<>>
    /\ Position' = <<>>
    /\ Equity_LRS' = <<>>
    /\ Equity_BH_Base' = <<>>
    /\ Equity_BH_Lev' = <<>>
    /\ Return_base' = <<>>
    /\ Return_lev' = <<>>
    /\ Return_LRS' = <<>>
    /\ buy_count' = 0
    /\ sell_count' = 0
    /\ trade_count' = 0
    /\ m_lrs' = "none"
    /\ m_lev' = "none"
    /\ m_base' = "none"

Rerun ==
    /\ pc \in {"done", "stopped", "crashed"}
    /\ UNCHANGED sideVars
    /\ ResetRun

Next ==
    \/ StartHome
    \/ StartLeveraged
    \/ StartBasic
    \/ GenSignal
    \/ GenPosition
    \/ GenEquity
    \/ TrimBasic
    \/ CountTrades
    \/ CalcMetrics
    \/ Rerun

Spec == Init /\ [][Next]_vars

\* the pages run on series with missing dates and a chosen end date
NextAlign ==
    \/ StartHomeAlign
    \/ StartLeveragedAlign
    \/ StartBasicAlign
    \/ GenSignal
    \/ GenPosition
    \/ GenEquity
    \/ TrimBasic
    \/ CountTrades
    \/ CalcMetrics
    \/ Rerun

SpecAlign == Init /\ [][NextAlign]_vars

\* ---------------------------------------------------------------- loaders
\* rows a CSV file may hold
MaxRows == 3
\* the files a loader may find: none, or rows in any order, dates repeated
\* or not
CsvFiles ==
    {[exists |-> FALSE, rows |-> <<>>]}
    \cup {[exists |-> TRUE, rows |-> r] :
             r \in UNION {[1..n -> Calendar] : n \in 0..MaxRows}}

\* the rows without row i
DropRow(rows, i) == SubSeq(rows, 1, i - 1) \o SubSeq(rows, i + 1, Len(rows))
RECURSIVE SortIndex(_)
\* df.sort_index(): every row is kept
SortIndex(rows) ==
    IF rows = <<>> THEN <<>>
    ELSE LET i == CHOOSE i \in DOMAIN rows : \A j \in DOMAIN rows : rows[i] <= rows[j]
         IN  <<rows[i]>> \o SortIndex(DropRow(rows, i))

\* hamster_data.loader.load_price
load_price(file) ==
    IF ~file.exists THEN [error |-> "FileNotFoundError", index |-> <<>>]
    ELSE IF file.rows = <<>> THEN [error |-> "ValueError", index |-> <<>>]
    ELSE [error |-> "none", index |-> SortIndex(file.rows)]

\* Home.py load_csv: a missing file gives an empty frame
load_csv(file) ==
    IF ~file.exists THEN [error |-> "none", index |-> <<>>]
    ELSE [error |-> "none", index |-> SortIndex(file.rows)]

LoadPrice ==
    /\ \E file \in CsvFiles :
         /\ csv_file' = file
         /\ load_out' = load_price(file)
    /\ loader' = "load_price"
    /\ UNCHANGED <<runVars, authVars, laterVars>>

LoadCsv ==
    /\ \E file \in CsvFiles :
         /\ csv_file' = file
         /\ load_out' = load_csv(file)
    /\ loader' = "load_csv"
    /\ UNCHANGED <<runVars, authVars, laterVars>>

NextLoad ==
    \/ LoadPrice
    \/ LoadCsv

SpecLoad == Init /\ [][NextLoad]_vars

\* ------------------------------------------------------------- password
\* st.secrets["password"]
Secret == "secret"
\* what a visitor may type into the password box
TypedPasswords == {Secret, "guess", ""}
\* the page scripts of the app; Home.py and pages/2_0050LRS.py call the gate
Scripts == {"Home", "2_0050LRS", "1_QQQLRS", "2_LRS_leveraged", "1_200SMA_basic"}
GatedScripts == {"Home", "2_0050LRS"}
\* the backtest each script runs
PageOf(s) ==
    IF s = "2_LRS_leveraged" THEN "Leveraged"
    ELSE IF s = "1_200SMA_basic" THEN "Basic"
    ELSE "Home"

\* variant of the callback: the typed text stays in the session state
password_enteredKeepsText(typed) ==
    IF typed = Secret
    THEN [password_correct |-> "true", password |-> typed]
    ELSE [password_correct |-> "false", password |-> typed]

\* auth.check_password.password_entered: the on_change callback
password_entered(typed) ==
    IF typed = Secret
    THEN [password_correct |-> "true", password |-> "unset"]
    ELSE [password_correct |-> "false", password |-> typed]

\* variant of the gate: a session without the flag is let in
check_passwordDefaultOpen(flag) ==
    IF flag # "false"
    THEN [ret |-> TRUE, form |-> FALSE, error |-> FALSE]
    ELSE [ret |-> FALSE, form |-> TRUE, error |-> flag = "false"]

\* variant of the gate: the login form is rendered before the flag is read
check_passwordFormFirst(flag) ==
    IF flag = "true"
    THEN [ret |-> TRUE, form |-> TRUE, error |-> FALSE]
    ELSE [ret |-> FALSE, form |-> TRUE, error |-> flag = "false"]

\* auth.check_password: the return value, whether the password box was
\* rendered and whether the wrong-password error was shown
check_password(flag) ==
    IF flag = "true"
    THEN [ret |-> TRUE, form |-> FALSE, error |-> FALSE]
    ELSE [ret |-> FALSE, form |-> TRUE, error |-> flag = "false"]

\* the top of a page script: `if not auth.check_password(): st.stop()` on the
\* gated pages, nothing on the others
RunGate(s, flag) ==
    IF s \in GatedScripts THEN check_password(flag)
    ELSE [ret |-> TRUE, form |-> FALSE, error |-> FALSE]

\* the text the password box holds
BoxText == IF password = "unset" THEN "" ELSE password

\* the visitor opens (or switches to, or reloads) a page: the script runs
\* from the top; a widget that is not rendered loses its session-state key
OpenPage ==
    /\ \E s \in Scripts :
         /\ script' = s
         /\ gate' = RunGate(s, password_correct)
         /\ password' = IF RunGate(s, password_correct).form THEN password
                        ELSE "unset"
    /\ submitted' = "none"
    /\ UNCHANGED password_correct
    /\ UNCHANGED <<loaderVars, laterVars>>
    /\ ResetRun

\* the visitor types into the password box and presses Enter: the callback
\* runs, then the script runs again from the top
SubmitPassword ==
    /\ gate.form
    /\ \E typed \in TypedPasswords \ {BoxText} :
         /\ submitted' = typed
         /\ password_correct' = password_entered(typed).password_correct
         /\ password' = password_entered(typed).password
         /\ gate' = RunGate(script, password_entered(typed).password_correct)
    /\ UNCHANGED script
    /\ UNCHANGED <<loaderVars, laterVars>>
    /\ ResetRun

\* the series the gated backtests are run on
GateRuns == {r \in GaplessRuns : Len(r.bprice) = MaxLen}

\* the visitor presses the backtest button of the open page; the button is
\* rendered after the gate only
PressButton ==
    /\ script # "none"
    /\ gate.ret
    /\ IF PageOf(script) = "Home" THEN StartHomeOn(GateRuns, TRUE)
       ELSE IF PageOf(script) = "Leveraged" THEN StartLeveragedOn(GateRuns, TRUE)
       ELSE StartBasicOn(GateRuns)

NextAuth ==
    \/ OpenPage
    \/ SubmitPassword
    \/ PressButton
    \/ GenSignal
    \/ GenPosition
    \/ GenEquity
    \/ TrimBasic
    \/ CountTrades
    \/ CalcMetrics

SpecAuth == Init /\ [][NextAuth]_vars

\* ------------------------------------------------------------ two runs
\* no run of the session has finished yet
NoRun == [pc |-> "none"]
\* everything a finished run computed and displayed
Snapshot ==
    [pc |-> pc, inputs |-> inputVars, frame |-> frameVars, Signal |-> Signal,
     Position |-> Position, curves |-> curveVars, counts |-> countVars,
     metrics |-> metricVars]
Finished == pc \in {"done", "stopped", "crashed"}
\* the request of the previous run: its stored series and its date range
SameSeries ==
    {r \in GaplessRuns : /\ r.bprice = prev.inputs[7]
                         /\ r.ldates = prev.inputs[8]
                         /\ r.st = prev.inputs[4]}

\* the first backtest of the session
StartFirst ==
    /\ prev = NoRun
    /\ \/ StartHomeOn(GaplessRuns, TRUE)
       \/ StartLeveragedOn(GaplessRuns, TRUE)
       \/ StartBasicOn(GaplessRuns)

\* the script is rerun after the first backtest: its results are what the
\* visitor saw, the script's variables start anew
RerunFirst ==
    /\ Finished
    /\ prev = NoRun
    /\ prev' = Snapshot
    /\ UNCHANGED <<loaderVars, authVars, dataVars>>
    /\ ResetRun

\* the button is pressed again on the same page, over the same stored
\* series (unchanged CSV files, a cache hit of load_price) and the same
\* dates; the radio and select boxes may have been changed
StartAgain ==
    /\ prev # NoRun
    /\ IF prev.inputs[1] = "Home" THEN StartHomeOn(SameSeries, TRUE)
       ELSE IF prev.inputs[1] = "Leveraged" THEN StartLeveragedOn(SameSeries, TRUE)
       ELSE StartBasicOn(SameSeries)

\* the script is rerun after the second backtest
RerunAgain ==
    /\ Finished
    /\ prev # NoRun
    /\ prev' = NoRun
    /\ UNCHANGED <<loaderVars, authVars, dataVars>>
    /\ ResetRun

NextTwice ==
    \/ StartFirst
    \/ RerunFirst
    \/ StartAgain
    \/ RerunAgain
    \/ GenSignal
    \/ GenPosition
    \/ GenEquity
    \/ TrimBasic
    \/ CountTrades
    \/ CalcMetrics

SpecTwice == Init /\ [][NextTwice]_vars

\* ---------------------------------------------------------- split repair
\* a zero price
IsZero(x) == x[1] = 0 /\ x[2] # 0
\* the values an Open cell may hold: missing (NaN), zero, or a price
OpenValues == {NaN, <<0, 1>>} \cup {<<p, 1>> : p \in 1..MaxPrice}
\* the frames of a symbol: one row per date, in date order
PriceRows == [Close : {<<p, 1>> : p \in 1..MaxPrice}, Open : OpenValues,
              Volume : {One}]
PriceFrames == UNION {[1..n -> PriceRows] : n \in 0..MaxRows}

\* drops = closes / closes.shift(1); the rows with drops < 0.6 or > 1.8
SplitCandidates(rows) ==
    {i \in 2..Len(rows) :
        LET drops == FracDiv(rows[i].Close, rows[i-1].Close)
        IN  FracLT(drops, <<3, 5>>) \/ FracLT(<<9, 5>>, drops)}

\* the price the day opened at: Open, or Close when Open is NaN or zero
curr_open(row) ==
    IF IsNaN(row.Open) \/ IsZero(row.Open) THEN row.Close ELSE row.Open

\* variant of the adjustment: the split date itself is adjusted too
AdjustThrough(rows, loc, factor) ==
    [i \in DOMAIN rows |->
        IF i <= loc
        THEN [Close |-> Reduce(FracDiv(rows[i].Close, factor)),
              Open |-> Reduce(FracDiv(rows[i].Open, factor)),
              Volume |-> Reduce(FracMul(rows[i].Volume, factor))]
        ELSE rows[i]]

\* mask = df_fixed.index < date: prices of the earlier rows are divided by the
\* factor, their volumes multiplied
AdjustBefore(rows, loc, factor) ==
    [i \in DOMAIN rows |->
        IF i < loc
        THEN [Close |-> Reduce(FracDiv(rows[i].Close, factor)),
              Open |-> Reduce(FracDiv(rows[i].Open, factor)),
              Volume |-> Reduce(FracMul(rows[i].Volume, factor))]
        ELSE rows[i]]

RECURSIVE RepairLoop(_, _, _, _)
\* the loop over the candidates from row `from` on: the frame and the log of
\* repairs it ends with
RepairLoop(rows, cands, from, log) ==
    IF \A i \in cands : i < from THEN [frame |-> rows, log |-> log]
    ELSE LET loc == CHOOSE i \in cands : i >= from /\ \A j \in cands : j >= from => i <= j
             factor == Reduce(FracDiv(rows[loc-1].Close, curr_open(rows[loc])))
             fixed == AdjustBefore(rows, loc, factor)
         IN  IF FracLT(<<3, 5>>, factor) /\ FracLT(factor, <<3, 2>>)
             THEN RepairLoop(rows, cands, loc + 1, log)
             ELSE RepairLoop(fixed, cands, loc + 1,
                             Append(log, [loc |-> loc, before |-> rows,
                                          after |-> fixed]))

\* detect_and_repair_splits: the candidates are found on the closes as
\* stored, the factors on the closes as repaired so far
detect_and_repair_splits(rows) ==
    IF Len(rows) < 2 THEN [frame |-> rows, log |-> <<>>]
    ELSE RepairLoop(rows, SplitCandidates(rows), 2, <<>>)

\* the frame of a symbol is handed in, once per symbol of a run
RepairSplits ==
    /\ df = <<>>
    /\ \E rows \in PriceFrames :
         /\ df' = rows
         /\ df_fixed' = detect_and_repair_splits(rows).frame
         /\ repairs' = detect_and_repair_splits(rows).log
    /\ UNCHANGED <<runVars, loaderVars, authVars, prev, updateVars, rankVars>>

\* the caller has saved the frame returned and drops it
RepairReturn ==
    /\ df # <<>>
    /\ df' = <<>>
    /\ df_fixed' = <<>>
    /\ repairs' = <<>>
    /\ UNCHANGED <<runVars, loaderVars, authVars, prev, updateVars, rankVars>>

NextRepair ==
    \/ RepairSplits
    \/ RepairReturn

SpecRepair == Init /\ [][NextRepair]_vars

\* ------------------------------------------------------------ CSV update
\* calendar days the updater runs over
MaxDay == 3
\* runs of the updater that are followed
MaxRuns == 3
Overlap == 1         \* timedelta(days=10), in days of the model's calendar
UpdateDays == 1..MaxDay
\* the dates of a frame
DateSet(rows) == {rows[i].Date : i \in DOMAIN rows}
\* the row of a frame dated d
RowAt(rows, d) == rows[CHOOSE i \in DOMAIN rows : rows[i].Date = d]

\* what yfinance may return from `first` on: any of the days, each with a
\* close; the Open column is present but empty
Downloads(first) ==
    UNION {[D -> {<<p, 1>> : p \in 1..MaxPrice}] :
              D \in SUBSET {d \in UpdateDays : d >= first}}
\* download_data: the rows of a download in date order
download_data(dl) ==
    LET ds == SortedSeq(DOMAIN dl)
    IN  [i \in DOMAIN ds |->
            [Date |-> ds[i], Close |-> dl[ds[i]], Open |-> NaN, Volume |-> One]]

\* pd.read_csv of a file this script saved: Date, Close, Volume
ReadCsv(file) ==
    [i \in DOMAIN file |->
        [Date |-> file[i].Date, Close |-> file[i].Close, Open |-> NaN,
         Volume |-> file[i].Volume]]

\* new_data[~new_data.index.duplicated(keep='last')]
RECURSIVE DropDuplicatedKeepLast(_)
DropDuplicatedKeepLast(rows) ==
    IF rows = <<>> THEN <<>>
    ELSE IF \E j \in 2..Len(rows) : rows[j].Date = rows[1].Date
         THEN DropDuplicatedKeepLast(Tail(rows))
         ELSE <<rows[1]>> \o DropDuplicatedKeepLast(Tail(rows))
RECURSIVE SortRows(_)
\* new_data.sort_index()
SortRows(rows) ==
    IF rows = <<>> THEN <<>>
    ELSE LET i == CHOOSE i \in DOMAIN rows :
                      \A j \in DOMAIN rows : rows[i].Date <= rows[j].Date
         IN  <<rows[i]>> \o SortRows(DropRow(rows, i))

\* variant of the merge: the stored rows are all kept and win over the
\* downloaded ones
MergeKeepStored(old, new, start_date) ==
    SortRows(DropDuplicatedKeepLast(new \o old))

\* existing[existing.index < start_date], concat, drop duplicates, sort
Merge(old, new, start_date) ==
    SortRows(DropDuplicatedKeepLast(
        SelectSeq(old, LAMBDA r : r.Date < start_date) \o new))

\* repaired_data[["Close", "Volume"]] with the dates of the merged frame
SavedRows(rows) ==
    LET fixed == detect_and_repair_splits(
                     [i \in DOMAIN rows |->
                         [Close |-> rows[i].Close, Open |-> rows[i].Open,
                          Volume |-> rows[i].Volume]]).frame
    IN  [i \in DOMAIN rows |->
            [Date |-> rows[i].Date, Close |-> fixed[i].Close,
             Volume |-> fixed[i].Volume]]

\* existing.index[-1] - timedelta(days=10)
StartDate(rows) == rows[Len(rows)].Date - Overlap

\* update_symbol: full download without a usable file, append otherwise;
\* nothing is saved when the merged frame is empty
update_symbol ==
    /\ update_mode.fetch = "none"
    /\ runs < MaxRuns
    /\ runs' = runs + 1
    /\ existing' = csv_data
    /\ IF ~csv_data.exists \/ csv_data.rows = <<>>
       THEN \E dl \in Downloads(1) :
                /\ fresh' = download_data(dl)
                /\ new_data' = download_data(dl)
                /\ update_mode' = [fetch |-> "full", saved |-> DOMAIN dl # {}]
                /\ csv_data' = IF DOMAIN dl = {} THEN csv_data
                               ELSE [exists |-> TRUE,
                                     rows |-> SavedRows(download_data(dl))]
       ELSE LET old == ReadCsv(csv_data.rows)
                start_date == StartDate(old)
            IN  \E dl \in Downloads(start_date) :
                    LET merged == Merge(old, download_data(dl), start_date)
                    IN  /\ fresh' = download_data(dl)
                        /\ new_data' = merged
                        /\ update_mode' = [fetch |-> "append",
                                           saved |-> merged # <<>>]
                        /\ csv_data' = IF merged = <<>> THEN csv_data
                                       ELSE [exists |-> TRUE,
                                             rows |-> SavedRows(merged)]
    /\ UNCHANGED <<runVars, loaderVars, authVars, prev, repairVars, rankVars>>

\* the script ends: only the file is left for the next run
EndOfRun ==
    /\ update_mode.fetch # "none"
    /\ existing' = [exists |-> FALSE, rows |-> <<>>]
    /\ fresh' = <<>>
    /\ new_data' = <<>>
    /\ update_mode' = [fetch |-> "none", saved |-> FALSE]
    /\ UNCHANGED <<csv_data, runs>>
    /\ UNCHANGED <<runVars, loaderVars, authVars, prev, repairVars, rankVars>>

NextUpdate ==
    \/ update_symbol
    \/ EndOfRun

SpecUpdate == Init /\ [][NextUpdate]_vars

\* ------------------------------------------------------ momentum ranking
\* calendar days the ranked series may hold a price on
MaxRankDay == 3
\* the largest staleness tolerance tried (15 days by default)
MaxTol == 1
RankDays == 1..MaxRankDay
\* the last day of the previous month; days after it are the current month
end_ref == MaxRankDay - 1
\* twelve months, in days of the model's calendar
Lookback == 1
start_ref == end_ref - Lookback
Instruments == {"A", "B", "C"}
\* a price series: a price on one or two days, or none
RankSeries ==
    UNION {[D -> 1..MaxPrice] : D \in {E \in SUBSET RankDays : Cardinality(E) <= 2}}
Universes == [Instruments -> RankSeries]

\* the day of the latest price at or before ref; 0 when there is none
LatestDay(s, ref) ==
    IF \E d \in DOMAIN s : d <= ref
    THEN CHOOSE d \in DOMAIN s : d <= ref /\ \A e \in DOMAIN s : e <= ref => e <= d
    ELSE 0

\* variant of the end lookup: a price of any age is taken
EndFoundAnyAge(s, tol) == LatestDay(s, end_ref) # 0

\* the end lookup: a price at or before end_ref, at most tol days old
EndFound(s, tol) ==
    /\ LatestDay(s, end_ref) # 0
    /\ end_ref - LatestDay(s, end_ref) <= tol
\* the start lookup: any price at or before start_ref
StartFound(s) == LatestDay(s, start_ref) # 0
\* p_end / p_start - 1
TrailingReturn(s) ==
    FracSub(<<s[LatestDay(s, end_ref)], s[LatestDay(s, start_ref)]>>, One)
\* the instruments both lookups succeed for
Ranked(u, tol) ==
    {x \in DOMAIN u : EndFound(u[x], tol) /\ StartFound(u[x])}

\* variant of the order: smallest trailing return first
ByReturnAscending(u, q) ==
    \A i, j \in DOMAIN q :
        i < j => ~FracLT(TrailingReturn(u[q[j]]), TrailingReturn(u[q[i]]))

\* q lists its instruments by trailing return, largest first
ByReturnDescending(u, q) ==
    \A i, j \in DOMAIN q :
        i < j => ~FracLT(TrailingReturn(u[q[i]]), TrailingReturn(u[q[j]]))

\* rank_momentum: the lists it may return (instruments of equal return in
\* either order), each entry with its 1-based rank
rank_momentum(u, tol) ==
    LET S == Ranked(u, tol)
        orders == {q \in [1..Cardinality(S) -> S] :
                      /\ \A i, j \in 1..Cardinality(S) : i # j => q[i] # q[j]
                      /\ ByReturnDescending(u, q)}
    IN  {[i \in DOMAIN q |->
             [symbol |-> q[i], ret |-> TrailingReturn(u[q[i]]), rank |-> i]] :
         q \in orders}

\* a ranking pass over a universe
RankMomentum ==
    /\ universe = <<>>
    /\ \E u \in Universes, tol \in 0..MaxTol :
         /\ universe' = u
         /\ tolerance' = tol
         /\ ranking' \in rank_momentum(u, tol)
    /\ UNCHANGED <<runVars, loaderVars, authVars, prev, repairVars, updateVars>>

\* the caller has taken the list
RankReturn ==
    /\ universe # <<>>
    /\ universe' = <<>>
    /\ tolerance' = 0
    /\ ranking' = <<>>
    /\ UNCHANGED <<runVars, loaderVars, authVars, prev, repairVars, updateVars>>

NextRank ==
    \/ RankMomentum
    \/ RankReturn

SpecRank == Init /\ [][NextRank]_vars

\* ------------------------------------------------------------ properties
SignalDone == pc \in {"position", "equity", "trim", "count", "metrics", "done"}
PositionDone == pc \in {"equity", "trim", "count", "metrics", "done"}
EquityDone == pc \in {"trim", "count", "metrics", "done"}
\* the frame is the analysis window (Basic trims only after the equity loop)
IsWindow == page # "Basic" \/ pc \in {"count", "metrics", "done"}
Days == 2..Len(Price_base)

EnterCond(t) == PriceGT(Price_base[t], MA[t]) /\ PriceLE(Price_base[t-1], MA[t-1])
ExitCond(t) == PriceLT(Price_base[t], MA[t]) /\ PriceGE(Price_base[t-1], MA[t-1])

\* C1: on every date after the first, Signal is Enter exactly on an upward
\* crossing (price > avg today, price <= avg yesterday), Exit exactly on a
\* downward crossing (price < avg today, price >= avg yesterday) and None
\* otherwise; the two crossings never coincide.
C1_SignalRule ==
    SignalDone =>
        /\ Len(Signal) = Len(Price_base)
        /\ \A t \in Days :
            /\ Signal[t] \in {1, -1, 0}
            /\ Signal[t] = 1 <=> EnterCond(t)
            /\ Signal[t] = -1 <=> ExitCond(t)
            /\ ~(EnterCond(t) /\ ExitCond(t))

C1_Witness ==
    /\ SignalDone
    /\ page = "Home"
    /\ \E t, u, v \in Days :
        /\ Signal[t] = 1
        /\ Signal[u] = -1
        /\ Signal[v] = 0

\* product of the traded instrument's daily ratios over the dates 2..t on
\* which both the date and the previous date are Invested
RECURSIVE HeldProduct(_, _, _)
HeldProduct(pos, lev, t) ==
    IF t < 2 THEN One
    ELSE FracMul(HeldProduct(pos, lev, t - 1),
                 IF pos[t] = 1 /\ pos[t-1] = 1 THEN <<lev[t], lev[t-1]>> ELSE One)

\* C2: on Home (and its copies 1_QQQLRS, 2_0050LRS) E[0] = 1, E[t] =
\* E[t-1] * traded[t] / traded[t-1] when Position is Invested on t and t-1,
\* E[t] = E[t-1] otherwise; the final equity is the product of the traded
\* ratios over exactly the dates held on both sides.
C2_EquityRule ==
    (EquityDone /\ page = "Home") =>
        /\ Len(Equity_LRS) = Len(Position)
        /\ Equity_LRS[1] = One
        /\ \A t \in Days :
            IF Position[t] = 1 /\ Position[t-1] = 1
            THEN FracEq(Equity_LRS[t],
                        FracMul(Equity_LRS[t-1], <<Price_lev[t], Price_lev[t-1]>>))
            ELSE FracEq(Equity_LRS[t], Equity_LRS[t-1])
        /\ FracEq(Equity_LRS[Len(Equity_LRS)],
                  HeldProduct(Position, Price_lev, Len(Position)))

C2_Witness ==
    /\ pc = "done"
    /\ page = "Home"
    /\ \E t, u \in Days :
        /\ Position[t] = 1 /\ Position[t-1] = 1
        /\ Price_lev[t] # Price_lev[t-1]
        /\ Position[u] = 1 /\ Position[u-1] = 0
        /\ Price_lev[u] # Price_lev[u-1]
    /\ ~FracEq(Equity_LRS[Len(Equity_LRS)], One)

\* C3: on every page a date whose Position differs from the previous
\* date's Position earns nothing: equity equals the previous equity.
C3_TransitionDayFlat ==
    EquityDone =>
        \A t \in Days :
            Position[t] # Position[t-1] => FracEq(Equity_LRS[t], Equity_LRS[t-1])

\* C4: Position changes only on a matching signal (Enter -> Invested,
\* Exit -> Flat) and is carried over on a date without signal.
C4_PositionMachine ==
    PositionDone =>
        /\ Len(Position) = Len(Signal)
        /\ \A t \in Days :
            /\ Position[t] \in {0, 1}
            /\ Position[t] # Position[t-1] =>
                  \/ Signal[t] = 1 /\ Position[t] = 1
                  \/ Signal[t] = -1 /\ Position[t] = 0
            /\ Signal[t] = 0 => Position[t] = Position[t-1]

C4_Witness ==
    /\ PositionDone
    /\ \E t, u \in Days :
        /\ Signal[t] = 1 /\ Position[t-1] = 0 /\ Position[t] = 1
        /\ Signal[u] = -1 /\ Position[u-1] = 1 /\ Position[u] = 0

\* C5 as stated: equality of price and average on either day of the pair
\* suppresses the signal.
C5_NoSignalOnEitherEquality ==
    SignalDone =>
        \A t \in Days :
            (PriceEQ(Price_base[t], MA[t]) \/ PriceEQ(Price_base[t-1], MA[t-1]))
                => Signal[t] = 0

\* C5 (amended): on every date after the first row of the signal frame,
\* price equal to the average on that date gives no signal; equality on the
\* previous date alone does not suppress a signal.
C5_NoSignalOnEqualityToday ==
    SignalDone =>
        \A t \in Days : PriceEQ(Price_base[t], MA[t]) => Signal[t] = 0

C5_Witness ==
    /\ SignalDone
    /\ \E t, u \in Days :
        /\ PriceEQ(Price_base[t], MA[t])
        /\ Signal[t] = 0
        /\ PriceEQ(Price_base[u-1], MA[u-1])
        /\ Signal[u] # 0

\* C6 as stated: on every page the signal on the first date of the
\* analysis window is None.
C6_FirstSignalNone ==
    (SignalDone /\ IsWindow) => Signal[1] = 0

\* C6 (amended): on Home the signal on the first date is None and the
\* first position is the initial policy's; Leveraged and Basic force Enter
\* on the first row of the frame the signal loop runs over, so the first
\* position there is Invested.
C6_FirstSignalPerPage ==
    /\ (SignalDone /\ page = "Home") => Signal[1] = 0
    /\ (PositionDone /\ page = "Home") => Position[1] = InitialPos(position_mode)
    /\ (SignalDone /\ page = "Leveraged") => Signal[1] = 1
    /\ (PositionDone /\ page = "Leveraged") => Position[1] = 1
    /\ (page = "Basic" /\ pc \in {"position", "equity", "trim"}) => Signal[1] = 1
    /\ (page = "Basic" /\ pc \in {"equity", "trim"}) => Position[1] = 1

C6_Witness ==
    /\ pc = "done"
    /\ page = "Home"
    /\ Len(Signal) >= 2
    /\ PriceGT(Price_base[1], MA[1])
    /\ Signal[1] = 0
    /\ Position[1] = 0

\* C7: on Home "start flat" gives Flat and "start invested" gives Invested
\* on the first date, whatever the relation of price and average there.
C7_InitialPolicy ==
    (PositionDone /\ page = "Home") =>
        /\ position_mode = "StartFlat" => Position[1] = 0
        /\ position_mode = "StartInvested" => Position[1] = 1

C7_Witness ==
    /\ PositionDone
    /\ page = "Home"
    /\ position_mode = "StartInvested"
    /\ PriceLT(Price_base[1], MA[1])
    /\ Position[1] = 1

ReportedTrades == IF page = "Home" THEN trade_count ELSE buy_count + sell_count

\* C9: the reported trade count is the number of dates of the analysis
\* window whose Signal is Enter or Exit.
C9_TradeCount ==
    pc = "done" =>
        ReportedTrades = Cardinality({t \in 1..Len(Signal) : Signal[t] # 0})

\* C10: equity stays strictly positive: E[t] > 0 whenever E[t-1] > 0 and
\* the traded prices at t-1 and t are positive, so every value of the curve
\* is positive.
C10_EquityPositive ==
    EquityDone =>
        /\ \A t \in Days :
            (FracPos(Equity_LRS[t-1]) /\ Price_lev[t-1] > 0 /\ Price_lev[t] > 0)
                => FracPos(Equity_LRS[t])
        /\ \A t \in 1..Len(Equity_LRS) : FracPos(Equity_LRS[t])

C10_Witness ==
    /\ pc = "done"
    /\ page = "Home"
    /\ \E t \in Days :
        /\ Position[t] = 1 /\ Position[t-1] = 1
        /\ Price_lev[t] < Price_lev[t-1]
        /\ FracPos(Equity_LRS[t])
        /\ ~FracEq(Equity_LRS[t], Equity_LRS[t-1])

\* ------------------------------------------------------- C11 .. C20
CurvesDone == pc \in {"count", "metrics", "done"}
\* the curves drawn on the chart of the running page
ReportedCurves ==
    IF page = "Basic" THEN <<Equity_LRS, Equity_BH_Base>>
    ELSE <<Equity_LRS, Equity_BH_Lev, Equity_BH_Base>>

\* C11: the strategy curve and the buy-and-hold curves all equal 1.0 on the
\* first date of the analysis window and are indexed by the same dates,
\* those of the window.
C11_CurvesStartAtOne ==
    CurvesDone =>
        /\ Len(Index) >= 1
        /\ \A k \in DOMAIN ReportedCurves :
             /\ Len(ReportedCurves[k]) = Len(Index)
             /\ FracEq(ReportedCurves[k][1], One)
\* a Basic run whose warm-up rows were cut and whose curves moved
C11_Witness ==
    /\ pc = "done"
    /\ page = "Basic"
    /\ Index[1] > Joined_index[1]
    /\ Len(Index) >= 2
    /\ ~FracEq(Equity_BH_Base[2], One)
    /\ ~FracEq(Equity_LRS[2], One)

FracLE(a, b) == a[1] * b[2] <= b[1] * a[2]
\* max(E[first..t]): a value of the prefix that none of the prefix exceeds
PrefixMax(eq, t) ==
    eq[CHOOSE k \in 1..t : \A j \in 1..t : FracLE(eq[j], eq[k])]
\* 1 - E[t] / max(E[first..t])
DrawdownAt(eq, t) == FracSub(One, FracDiv(eq[t], PrefixMax(eq, t)))
\* d is the largest drawdown of the curve
IsMaxDrawdown(eq, d) ==
    /\ \A t \in 1..Len(eq) : FracLE(DrawdownAt(eq, t), d)
    /\ \E t \in 1..Len(eq) : FracEq(DrawdownAt(eq, t), d)
\* the metric records of the running page with their curve and return column
Measured ==
    {<<m_lrs, Equity_LRS, Return_LRS>>, <<m_base, Equity_BH_Base, Return_base>>}
    \cup (IF page = "Basic" THEN {}
          ELSE {<<m_lev, Equity_BH_Lev, Return_lev>>})

\* C12: the reported maximum drawdown of every curve equals the largest
\* value over t of 1 - E[t] / max(E[first..t]) and lies between 0 and 1.
C12_MddIsMaxDrawdown ==
    pc = "done" =>
        \A x \in Measured :
            /\ IsMaxDrawdown(x[2], x[1].mdd)
            /\ x[1].mdd[1] >= 0
            /\ x[1].mdd[1] <= x[1].mdd[2]
\* a strategy curve that rose, fell and recovered
C12_Witness ==
    /\ pc = "done"
    /\ FracPos(m_lrs.mdd)
    /\ \E t \in 3..Len(Equity_LRS) :
          /\ FracLT(Equity_LRS[t-2], Equity_LRS[t-1])
          /\ FracLT(Equity_LRS[t], Equity_LRS[t-1])
          /\ FracLT(Equity_LRS[t], Equity_LRS[Len(Equity_LRS)])

AllEqual(xs) == \A i, j \in DOMAIN xs : FracEq(xs[i], xs[j])
NeverSignalled == \A t \in DOMAIN Signal : Signal[t] = 0

\* C19: the metric block always completes; Sharpe is NaN when the returns
\* have zero deviation, Sortino is NaN when there are no negative returns
\* or they have zero deviation, Calmar is NaN when the drawdown is 0, CAGR
\* is NaN when the window spans no time; a start-flat run that never gets a
\* signal reports equity 1.0 throughout, total return 0, drawdown 0 and
\* undefined Sharpe, Sortino and Calmar.
C19_MetricsDegenerate ==
    pc = "done" =>
        /\ \A x \in Measured :
             /\ AllEqual(x[3]) => x[1].sharpe = "nan"
             /\ AllEqual(Negatives(x[3])) => x[1].sortino = "nan"
             /\ (page = "Home" /\ x[1].mdd[1] = 0) => x[1].calmar = "nan"
             /\ Index[Len(Index)] <= Index[1] => x[1].cagr = "nan"
        /\ (page = "Home" /\ position_mode = "StartFlat" /\ NeverSignalled) =>
             /\ \A t \in DOMAIN Equity_LRS : FracEq(Equity_LRS[t], One)
             /\ m_lrs.final_ret[1] = 0
             /\ m_lrs.mdd[1] = 0
             /\ m_lrs.sharpe = "nan"
             /\ m_lrs.sortino = "nan"
             /\ m_lrs.calmar = "nan"
\* a start-flat run over several dates with moving prices and no signal
C19_Witness ==
    /\ pc = "done"
    /\ page = "Home"
    /\ position_mode = "StartFlat"
    /\ NeverSignalled
    /\ Len(Index) >= 3
    /\ \E t \in DOMAIN Price_lev : Price_lev[t] # Price_lev[1]
    /\ m_lev.sharpe = "num"

\* C20: on every page the return column behind the strategy's volatility,
\* Sharpe and Sortino is the one-day percentage change of the reported
\* strategy curve, 0 on the first date.
C20_ReturnsOfReportedCurve ==
    pc = "done" =>
        \A t \in DOMAIN Return_LRS :
            FracEq(Return_LRS[t], PctChangeFrac(Equity_LRS)[t])

\* ------------------------------------------------------- C13 .. C17
\* the button was pressed
Started == page # "none" /\ pc # "idle"
\* nothing of a backtest exists: no frame, no column, no count, no metric
NothingComputed ==
    /\ Index = <<>>
    /\ MA = <<>>
    /\ Signal = <<>>
    /\ Position = <<>>
    /\ Equity_LRS = <<>>
    /\ Equity_BH_Base = <<>>
    /\ Equity_BH_Lev = <<>>
    /\ Return_LRS = <<>>
    /\ buy_count = 0
    /\ sell_count = 0
    /\ trade_count = 0
    /\ m_lrs = "none"
    /\ m_lev = "none"
    /\ m_base = "none"
\* the dates present in both stored series
Aligned == base_index \cap lev_index
\* the aligned dates of the buffered range up to the requested start
AlignedUpToStart == {d \in Aligned : start - Buffer <= d /\ d <= start}

\* C13: a run with fewer than W aligned rows up to its requested start
\* date fails and produces no results; the window never begins later than
\* requested.
C13_InsufficientHistoryFails ==
    (Started /\ Cardinality(AlignedUpToStart) < WINDOW) =>
        (pc = "stopped" /\ NothingComputed)

\* C14: when the aligned history has fewer rows in total than the window
\* length, the run stops with an error and computes no average, signal,
\* position, curve or metric.
C14_ShortHistoryStops ==
    (Started /\ Cardinality(Aligned) < WINDOW) =>
        (pc = "stopped" /\ NothingComputed)
\* a Home run on series that have some, but too few, common dates
C14_Witness ==
    /\ page = "Home"
    /\ pc = "stopped"
    /\ Aligned # {}
    /\ Cardinality(Aligned) < WINDOW
    /\ Joined_index # <<>>

\* C15: on every page a run with start >= end is rejected: it stops and
\* nothing of a backtest is computed.
C15_InvalidRangeRejected ==
    (Started /\ start >= end) => (pc = "stopped" /\ NothingComputed)

\* C16: when the signal series and the traded series have no date in
\* common, the run is aborted with an error and leaves no curve and no
\* metric.
C16_NoOverlapAborts ==
    (Started /\ Aligned = {}) => (pc = "stopped" /\ NothingComputed)
\* both series hold data, on different dates
C16_Witness ==
    /\ page = "Home"
    /\ pc = "stopped"
    /\ base_index # {}
    /\ lev_index # {}
    /\ Aligned = {}

\* the k latest aligned dates up to d
LatestAligned(d, k) ==
    {a \in Aligned : a <= d /\ Cardinality({b \in Aligned : a < b /\ b <= d}) < k}
RECURSIVE SumClose(_)
SumClose(D) ==
    IF D = {} THEN 0
    ELSE LET x == CHOOSE x \in D : TRUE IN base_close[x] + SumClose(D \ {x})

Ascending(idx) == \A i \in 1..(Len(idx) - 1) : idx[i] <= idx[i+1]
NoDuplicates(idx) == \A i, j \in DOMAIN idx : idx[i] = idx[j] => i = j

\* C18: a load fails with a not-found error when the symbol has no CSV and
\* with an empty-series error when the CSV has no rows; a load that
\* succeeds returns the dates in ascending order with no date repeated.
C18_LoadContract ==
    loader # "none" =>
        /\ ~csv_file.exists => load_out.error = "FileNotFoundError"
        /\ (csv_file.exists /\ csv_file.rows = <<>>) =>
              load_out.error = "ValueError"
        /\ load_out.error = "none" =>
              (Ascending(load_out.index) /\ NoDuplicates(load_out.index))

\* ------------------------------------------------------------------ C30
\* rows t1 < t2 carry the same signal and no row between them the other one
Repeated(t1, t2) ==
    /\ t1 < t2
    /\ Signal[t1] # 0
    /\ Signal[t2] = Signal[t1]
    /\ \A u \in (t1 + 1)..(t2 - 1) : Signal[u] # -Signal[t1]
\* the latest row before t that carries a signal (0 when there is none)
LastSignalBefore(t) ==
    IF \E u \in 1..(t - 1) : Signal[u] # 0
    THEN CHOOSE u \in 1..(t - 1) :
             Signal[u] # 0 /\ \A v \in (u + 1)..(t - 1) : Signal[v] = 0
    ELSE 0

C24_GateStops ==
    /\ [](script \in GatedScripts =>
            /\ gate.ret <=> (password_correct = "true")
            /\ password_correct # "true" => (pc = "idle" /\ NothingComputed))
    /\ [][password_correct' = "true" =>
            (password_correct = "true" \/ submitted' = Secret)]_vars
\* a gated page stopped at the gate after a wrong password
C24_Witness ==
    /\ script \in GatedScripts
    /\ password_correct = "false"
    /\ ~gate.ret
    /\ pc = "idle"

\* ------------------------------------------------------------------ C25
\* C25: after a submission the flag is True if and only if the submitted text
\* equals the secret, and False otherwise; after a correct submission the
\* text is no longer in the session state; after an incorrect one the gate
\* returns False and shows the wrong-password error.
C25_SubmissionOutcome ==
    submitted # "none" =>
        /\ (password_correct = "true") <=> (submitted = Secret)
        /\ (password_correct = "false") <=> (submitted # Secret)
        /\ submitted = Secret => password = "unset"
        /\ submitted # Secret => (~gate.ret /\ gate.error)
\* the secret has just been submitted
C25_Witness ==
    /\ submitted = Secret
    /\ password_correct = "true"
    /\ password = "unset"
    /\ gate.ret

\* ------------------------------------------------------------------ C29
\* C29: once password_correct is True it stays True, and every later run of a
\* gated script goes past the gate.
C29_StaysAuthenticated ==
    [][password_correct = "true" =>
          /\ password_correct' = "true"
          /\ script' \in GatedScripts => gate'.ret]_vars
\* an authenticated session that later reopened a gated page and finished a
\* backtest on it
C29_Witness ==
    /\ password_correct = "true"
    /\ submitted = "none"
    /\ script \in GatedScripts
    /\ pc = "done"

\* ------------------------------------------------------------------ C21
\* the run has the arguments and the stored series of the previous run (the
\* traded prices are read into Price_lev)
SameInputs == inputVars = prev.inputs /\ Price_lev = prev.frame[5]

Continuous(rows, d) == FracEq(rows[d-1].Close, curr_open(rows[d]))
\* C26: right after the repair of a split at date d the adjusted Close of the
\* row before d equals the Open of d (its Close when Open is missing, zero
\* or NaN) and the rows dated d or later are as they were before that
\* repair; the continuity at d still holds in the frame returned, after all
\* later repairs.
C26_RepairedSplitsAreContinuous ==
    \A k \in DOMAIN repairs :
        /\ Continuous(repairs[k].after, repairs[k].loc)
        /\ \A i \in repairs[k].loc..Len(df) :
               repairs[k].after[i] = repairs[k].before[i]
        /\ Continuous(df_fixed, repairs[k].loc)
\* two splits were repaired, the earlier one at a date whose Open is missing
C26_Witness ==
    /\ Len(repairs) >= 2
    /\ IsNaN(df[repairs[1].loc].Open)
    /\ df_fixed # df

\* ------------------------------------------------------------------ C27
\* the last run was an append update
Appended == update_mode.fetch = "append"
\* the first date the append update downloaded from
Cutoff == StartDate(existing.rows)
SortedUnique(rows) ==
    \A i, j \in DOMAIN rows : i < j => rows[i].Date < rows[j].Date
\* the rows of `rows` dated d carry the close and volume of `from`
CarriesFrom(rows, from, d) ==
    /\ d \in DateSet(from)
    /\ d \in DateSet(rows)
    /\ RowAt(rows, d).Close = RowAt(from, d).Close
    /\ RowAt(rows, d).Volume = RowAt(from, d).Volume

\* C27 as stated: after an append update the saved series is sorted with no
\* duplicate dates; each of its dates on or after the cut-off carries the
\* downloaded values and each earlier date the stored values, before the
\* split repair.
C27_AppendMerges ==
    Appended =>
        /\ SortedUnique(csv_data.rows)
        /\ \A d \in DateSet(csv_data.rows) :
              IF d >= Cutoff THEN CarriesFrom(new_data, fresh, d)
              ELSE CarriesFrom(new_data, existing.rows, d)

\* C27 amended: the same for an append update whose merged frame is not
\* empty; with an empty merged frame nothing is saved and the file is left
\* as it was.
C27_AppendMergesWhenSaved ==
    Appended =>
        IF update_mode.saved
        THEN /\ SortedUnique(csv_data.rows)
             /\ DateSet(csv_data.rows) = DateSet(new_data)
             /\ \A d \in DateSet(csv_data.rows) :
                   IF d >= Cutoff THEN CarriesFrom(new_data, fresh, d)
                   ELSE CarriesFrom(new_data, existing.rows, d)
        ELSE csv_data = existing /\ new_data = <<>> /\ fresh = <<>>
\* an append update replaced a stored close by a different downloaded one
\* and kept an older stored row
C27_Witness ==
    /\ Appended
    /\ update_mode.saved
    /\ \E d \in DateSet(existing.rows) \cap DateSet(fresh) :
          RowAt(existing.rows, d).Close # RowAt(fresh, d).Close
    /\ \E d \in DateSet(csv_data.rows) : d < Cutoff

\* ------------------------------------------------------------------ C28
\* C28: a date stored after one run of update_symbol is stored after every
\* later run, whatever the download returns.
C28_StoredDatesPersist ==
    [][DateSet(csv_data.rows) \subseteq DateSet(csv_data'.rows)]_vars

\* ------------------------------------------------------------------ C22
\* the instruments listed in the ranking
Listed == {ranking[i].symbol : i \in DOMAIN ranking}
\* the latest price of x at or before end_ref is older than the tolerance
Stale(x) ==
    /\ \E d \in DOMAIN universe[x] : d <= end_ref
    /\ \A d \in DOMAIN universe[x] : d <= end_ref => end_ref - d > tolerance
\* C22: an instrument whose latest price at or before end_ref is more than
\* the tolerance older than end_ref is not in the output of rank_momentum.
C22_StaleExcluded ==
    universe # <<>> => \A x \in Instruments : Stale(x) => x \notin Listed
\* a stale instrument with a start price was left out while another
\* instrument was ranked
C22_Witness ==
    /\ universe # <<>>
    /\ \E x \in Instruments :
          /\ Stale(x)
          /\ \E d \in DOMAIN universe[x] : d <= start_ref
    /\ Listed # {}

\* ------------------------------------------------------------------ C23
\* both lookups of x succeed
BothFound(x) ==
    /\ \E d \in DOMAIN universe[x] : d <= end_ref /\ end_ref - d <= tolerance
    /\ \E d \in DOMAIN universe[x] : d <= start_ref
\* the universe without instrument x
Without(x) == [y \in Instruments \ {x} |-> universe[y]]
\* C23: the output lists exactly the instruments both lookups succeed for,
\* by descending trailing return p_end / p_start - 1, with ranks 1, 2, ...;
\* an instrument without a price at or before start_ref is left out and the
\* list is one that the ranking of the other instruments alone returns.
C23_RankingContract ==
    universe # <<>> =>
        /\ Listed = {x \in Instruments : BothFound(x)}
        /\ Len(ranking) = Cardinality(Listed)
        /\ \A i \in DOMAIN ranking :
              /\ ranking[i].rank = i
              /\ ranking[i].ret = TrailingReturn(universe[ranking[i].symbol])
        /\ \A i, j \in DOMAIN ranking :
              i < j => ~FracLT(ranking[i].ret, ranking[j].ret)
        /\ \A x \in Instruments :
              (~\E d \in DOMAIN universe[x] : d <= start_ref) =>
                  /\ x \notin Listed
                  /\ ranking \in rank_momentum(Without(x), tolerance)
\* two instruments ranked with different returns, a third one with a fresh
\* end price but no start price left out
C23_Witness ==
    /\ universe # <<>>
    /\ Len(ranking) = 2
    /\ FracLT(ranking[2].ret, ranking[1].ret)
    /\ \E x \in Instruments :
          /\ ~\E d \in DOMAIN universe[x] : d <= start_ref
          /\ \E d \in DOMAIN universe[x] : d <= end_ref /\ end_ref - d <= tolerance
====
